---- MODULE Spec2Model ----
(***************************************************************************)
(* Model of the FLRA notification pipeline:                                *)
(*   - code/scheduler/app.py : the ingestion Lambda (feeds -> item store   *)
(*     -> proactive notifications -> LastNotifiedTimestamp),               *)
(*   - code/alexaSkill/app.py: the Alexa skill Lambda (request dispatch,   *)
(*     latest updates, preferences).                                       *)
(*                                                                         *)
(* Strings that are only compared for equality are TLA+ strings.  Strings  *)
(* on which the code tests substring containment (feed URLs, topics) are   *)
(* sequences of symbols.  Wall-clock time is an integer number of ticks,   *)
(* TicksPerDay ticks to the day; an ISO timestamp string is a one-element  *)
(* sequence holding the tick, and Python's None is the empty sequence      *)
(* (both None and "" are falsy, as in the code's `not last_notified`).     *)
(***************************************************************************)
EXTENDS Integers, Sequences, FiniteSets, TLC

(***************************************************************************)
(* Bounds of the model                                                     *)
(***************************************************************************)
TicksPerDay == 2
\* last value of the clock in the ingestion specifications
MaxTime == 2
\* ingestion Lambda invocations
MaxRuns == 2
\* entries one parsed feed may hold
MaxEntries == 2
\* distinct entry links the feeds may carry
MaxLinks == 2
\* SetPreferenceIntent requests served while ingestion runs
MaxPrefSets == 2
\* item store size and CreatedTimestamp range in the skill specification
MaxStored == 4
MaxCreated == 1

(***************************************************************************)
(* Program constants                                                       *)
(***************************************************************************)
\* timedelta(days=1), timedelta(days=7)
Day == 1 * TicksPerDay
Week == 7 * TicksPerDay

\* "https://www.flra.gov/feeds/decisions.xml", ".../press-releases.xml":
\* the common prefix is the symbol "f", the feed names are "d" and "p".
MULTIPLE_FEEDS == << <<"f", "d">>, <<"f", "p">> >>

\* the default topic "decisions"
DefaultTopic == <<"d">>
DefaultFrequency == "daily"
DefaultUser == "demoUser"

SummaryNotAvailable == "Summary not available."
NoSummaryAvailable == "No summary available."

--------------------------------------------------------------------------
(***************************************************************************)
(* Python helpers                                                          *)
(***************************************************************************)
PyNone == <<>>

\* `not x` for a string or None
Falsy(x) == Len(x) = 0

\* datetime.isoformat() / datetime.fromisoformat()
isoformat(t) == <<t>>
fromisoformat(s) == s[1]

\* `sub in s` for two strings
StrIn(sub, s) ==
    \E i \in 0..(Len(s) - Len(sub)) : SubSeq(s, i + 1, i + Len(sub)) = sub

\* dict.get(key, default)
Get(d, key, default) == IF key \in DOMAIN d THEN d[key] ELSE default

\* d[key] = value on a dict
SetKey(d, key, value) ==
    [k \in DOMAIN d \cup {key} |-> IF k = key THEN value ELSE d[k]]

EmptyTable == [k \in {} |-> 0]

--------------------------------------------------------------------------
(***************************************************************************)
(* scheduler: is_user_due_for_notification                                 *)
(***************************************************************************)
\* the check with > where the code has >=
IsDueStrictlyLater(frequency, last_notified, utcnow) ==
    IF Falsy(last_notified) THEN TRUE
    ELSE LET last_dt == fromisoformat(last_notified) IN
         IF frequency = "daily" THEN (utcnow - last_dt) > Day
         ELSE IF frequency = "weekly" THEN (utcnow - last_dt) > Week
         ELSE (utcnow - last_dt) > Day

is_user_due_for_notification(frequency, last_notified, utcnow) ==
    IF Falsy(last_notified) THEN TRUE
    ELSE LET last_dt == fromisoformat(last_notified) IN
         IF frequency = "daily" THEN (utcnow - last_dt) >= Day
         ELSE IF frequency = "weekly" THEN (utcnow - last_dt) >= Week
         ELSE (utcnow - last_dt) >= Day

--------------------------------------------------------------------------
(***************************************************************************)
(* Value sets the inputs are drawn from                                    *)
(***************************************************************************)
Runs == 1..MaxRuns
Links == 1..MaxLinks
Titles == {"t1", "t2"}
Users == {DefaultUser, "u1"}
Frequencies == {"daily", "weekly", "monthly"}
\* no filter text, "decisions", "press-releases", a two-symbol match, no match
Topics == {<<>>, <<"d">>, <<"p">>, <<"f", "p">>, <<"p", "f">>}
\* secrets.get("ALEXA_OAUTH_TOKEN", "")
AlexaTokens == {"", "token"}
\* what the summarizer endpoint does on one call
LLMOutcomes == {"ok", "no_summary_key", "connection_error", "non_json"}
\* what the Proactive Events API does on one call
PostOutcomes == {"accepted", "status_300_or_more", "exception"}

NoEntry == [link |-> 0, title |-> ""]

\* every order in which a scan may return the records of a table
ScanOrders(table) ==
    LET n == Cardinality(DOMAIN table) IN
    {s \in [1..n -> DOMAIN table] : \A i, j \in 1..n : s[i] = s[j] => i = j}

\* the local variables of one ingestion run before it starts
IdleRun ==
    [pc |-> "idle",
     alexa_token |-> "",        \* alexa_token of lambda_handler
     feed_idx |-> 1,            \* index of rss_url in MULTIPLE_FEEDS
     n_read |-> 0,              \* entries of the current feed already iterated
     entry |-> NoEntry,         \* entry of the current iteration
     summary |-> "",            \* summary of the current iteration
     new_items |-> <<>>,        \* new_items of lambda_handler
     all_prefs |-> <<>>,        \* all_prefs of notify_users
     user_idx |-> 1,            \* index of user_pref in all_prefs
     filtered_items |-> <<>>]   \* filtered_items of notify_users

\* lambda_handler has returned: its local variables are gone
ReturnedRun == [IdleRun EXCEPT !.pc = "done"]

VARIABLES
    now,            \* datetime.utcnow(), in ticks
    feed_table,     \* DynamoDB FEED_TABLE: ItemId -> item
    prefs_table,    \* DynamoDB PREFS_TABLE: UserId -> preference record
    run,            \* per ingestion run: where it stands, and its locals
    llm_log,        \* history: per ItemId, the outcomes of its summarizer calls
    put_log,        \* history: per ItemId, the number of put_item calls
    notify_log,     \* history: the send_proactive_notification calls
    runs_started,   \* history: lambda_handler invocations so far
    pref_sets,      \* history: SetPreferenceIntent requests so far
    event,          \* skill: the last request envelope
    result,         \* skill: what lambda_handler did with it
    due_args,       \* due-ness check: the arguments
    due_result      \* due-ness check: the returned value

stores == <<feed_table, prefs_table>>
history == <<llm_log, put_log, notify_log, runs_started, pref_sets>>
skill == <<event, result>>
due == <<due_args, due_result>>
vars == <<now, stores, run, history, skill, due>>

--------------------------------------------------------------------------
(***************************************************************************)
(* scheduler: item store                                                   *)
(***************************************************************************)
\* a dedup check that looks up the wrong key and never finds the item
ItemNeverFound(table, item_id) == FALSE

\* feed_table.get_item(...); 'Item' in resp
item_exists(table, item_id) == item_id \in DOMAIN table

\* summarize_text: the value returned for each behaviour of the endpoint
summarize_text(title, outcome) ==
    IF outcome \in {"connection_error", "non_json"}
    THEN SummaryNotAvailable                 \* except Exception
    ELSE IF outcome = "no_summary_key"
    THEN NoSummaryAvailable                  \* resp_json.get("summary", ...)
    ELSE "bullets"

\* the Item written by process_feed
StoredItem(e, text, rss_url, utcnow) ==
    [ItemId |-> e.link, Title |-> e.title, Link |-> e.link, Summary |-> text,
     FeedSource |-> rss_url, CreatedTimestamp |-> isoformat(utcnow)]

\* the dict appended to new_items by process_feed
NewItem(e, text, rss_url) ==
    [ItemId |-> e.link, Title |-> e.title, Link |-> e.link, Summary |-> text,
     FeedSource |-> rss_url]

\* a write conditional on attribute_not_exists(ItemId)
PutItemIfAbsent(table, key, item) ==
    IF key \in DOMAIN table THEN table ELSE SetKey(table, key, item)

\* feed_table.put_item(Item=item): an unconditional write
put_item(table, key, item) == SetKey(table, key, item)

\* the filter loop of notify_users
RECURSIVE FilterLoop(_, _, _, _)
FilterLoop(items, topic, i, acc) ==
    IF i > Len(items) THEN acc
    ELSE FilterLoop(items, topic, i + 1,
                    IF StrIn(topic, items[i].FeedSource)
                    THEN Append(acc, items[i]) ELSE acc)

\* a filter that collects the matches newest first
RECURSIVE FilterLoopNewestFirst(_, _, _, _)
FilterLoopNewestFirst(items, topic, i, acc) ==
    IF i > Len(items) THEN acc
    ELSE FilterLoopNewestFirst(items, topic, i + 1,
                          IF StrIn(topic, items[i].FeedSource)
                          THEN <<items[i]>> \o acc ELSE acc)

FilterItemsNewestFirst(items, topic) == FilterLoopNewestFirst(items, topic, 1, <<>>)

FilterItems(items, topic) == FilterLoop(items, topic, 1, <<>>)

\* prefs_table.update_item(Key, SET LastNotifiedTimestamp = :ts): an upsert
update_item(table, user_id, ts) ==
    IF user_id \in DOMAIN table
    THEN [table EXCEPT ![user_id] = SetKey(@, "LastNotifiedTimestamp", ts)]
    ELSE SetKey(table, user_id,
                [UserId |-> user_id, LastNotifiedTimestamp |-> ts])

\* send_proactive_notification: whether the event reached the user.  The
\* function returns None on every path; only its log line tells them apart.
send_proactive_notification(token, outcome) ==
    IF Falsy(token) THEN FALSE              \* "No Alexa OAuth token found"
    ELSE IF outcome = "exception" THEN FALSE
    ELSE IF outcome = "status_300_or_more" THEN FALSE
    ELSE TRUE                               \* "sent successfully"

--------------------------------------------------------------------------
(***************************************************************************)
(* scheduler: lambda_handler, one action per step between store accesses   *)
(***************************************************************************)
\* time passes
Tick ==
    /\ now < MaxTime
    /\ now' = now + 1
    /\ UNCHANGED <<stores, run, history, skill, due>>

\* get_secrets and the start of the feed loop
Begin(r) ==
    /\ run[r].pc = "idle"
    /\ r = runs_started + 1
    /\ runs_started' = r
    /\ \E t \in AlexaTokens :
         run' = [run EXCEPT ![r] = [@ EXCEPT !.pc = "entries",
                                             !.alexa_token = t]]
    /\ UNCHANGED <<now, stores, llm_log, put_log, notify_log,
                   pref_sets, skill, due>>

\* the scheduled invocation model: one ingestion run at a time
StartRun(r) ==
    /\ \A q \in Runs : run[q].pc \in {"idle", "done"}
    /\ Begin(r)

\* two invocations that overlap
StartOverlappingRun(r) == Begin(r)

\* for entry in entries: item_id = entry.link; if not item_exists(item_id)
NextEntry(r, titles) ==
    /\ run[r].pc = "entries"
    /\ run[r].n_read < MaxEntries
    /\ \E l \in Links, t \in titles :
         LET e == [link |-> l, title |-> t] IN
         run' = [run EXCEPT ![r] =
                   IF item_exists(feed_table, e.link)
                   THEN [@ EXCEPT !.n_read = @ + 1]
                   ELSE [@ EXCEPT !.n_read = @ + 1, !.entry = e,
                                  !.pc = "summarize"]]
    /\ UNCHANGED <<now, stores, history, skill, due>>

\* summary = summarize_text(entry.title, entry.description, llm_api_key)
Summarize(r, outcomes) ==
    /\ run[r].pc = "summarize"
    /\ \E o \in outcomes :
         /\ run' = [run EXCEPT ![r] =
                      [@ EXCEPT !.summary = summarize_text(run[r].entry.title, o),
                                !.pc = "put"]]
         /\ llm_log' = [llm_log EXCEPT ![run[r].entry.link] = Append(@, o)]
    /\ UNCHANGED <<now, stores, put_log, notify_log, runs_started,
                   pref_sets, skill, due>>

\* feed_table.put_item(...); new_items.append(...)
PutItem(r) ==
    /\ run[r].pc = "put"
    /\ LET e == run[r].entry
           text == run[r].summary
           rss_url == MULTIPLE_FEEDS[run[r].feed_idx]
       IN /\ feed_table' = put_item(feed_table, e.link,
                                    StoredItem(e, text, rss_url, now))
          /\ run' = [run EXCEPT ![r] =
                       [@ EXCEPT !.new_items = Append(@, NewItem(e, text, rss_url)),
                                 !.entry = NoEntry, !.summary = "",
                                 !.pc = "entries"]]
          /\ put_log' = [put_log EXCEPT ![e.link] = @ + 1]
    /\ UNCHANGED <<now, prefs_table, llm_log, notify_log,
                   runs_started, pref_sets, skill, due>>

\* process_feed returns: next rss_url, or `if new_items: notify_users(...)`
EndFeed(r) ==
    /\ run[r].pc = "entries"
    /\ run' = [run EXCEPT ![r] =
                 IF run[r].feed_idx < Len(MULTIPLE_FEEDS)
                 THEN [@ EXCEPT !.feed_idx = @ + 1, !.n_read = 0]
                 ELSE IF run[r].new_items /= <<>>
                 THEN [@ EXCEPT !.pc = "scan"]
                 ELSE ReturnedRun]
    /\ UNCHANGED <<now, stores, history, skill, due>>

\* all_prefs = prefs_table.scan().get("Items", []); if not all_prefs: return
ScanPrefs(r) ==
    /\ run[r].pc = "scan"
    /\ \E order \in ScanOrders(prefs_table) :
         run' = [run EXCEPT ![r] =
                   IF DOMAIN prefs_table = {}
                   THEN ReturnedRun
                   ELSE [@ EXCEPT !.all_prefs = [i \in DOMAIN order |->
                                                   prefs_table[order[i]]],
                                  !.user_idx = 1,
                                  !.pc = "users"]]
    /\ UNCHANGED <<now, stores, history, skill, due>>

\* the loop body with the update_item outside `if filtered_items:`
CheckUserStampsAnyway(r) ==
    /\ run[r].pc = "users"
    /\ run[r].user_idx <= Len(run[r].all_prefs)
    /\ LET user_pref == run[r].all_prefs[run[r].user_idx]
           frequency == Get(user_pref, "NotificationFrequency", DefaultFrequency)
           topic == Get(user_pref, "PreferredTopic", DefaultTopic)
           last_notified == Get(user_pref, "LastNotifiedTimestamp", PyNone)
           filtered == FilterLoop(run[r].new_items, topic, 1, <<>>)
       IN IF ~ is_user_due_for_notification(frequency, last_notified, now)
          THEN /\ run' = [run EXCEPT ![r] = [@ EXCEPT !.user_idx = @ + 1]]
               /\ UNCHANGED prefs_table
          ELSE IF filtered /= <<>>
          THEN /\ run' = [run EXCEPT ![r] = [@ EXCEPT !.filtered_items = filtered,
                                                      !.pc = "send"]]
               /\ UNCHANGED prefs_table
          ELSE /\ run' = [run EXCEPT ![r] = [@ EXCEPT !.user_idx = @ + 1]]
               /\ prefs_table' = [prefs_table EXCEPT ![user_pref.UserId] =
                                    SetKey(@, "LastNotifiedTimestamp", <<now>>)]
    /\ UNCHANGED <<now, feed_table, history, skill, due>>

\* one iteration of `for user_pref in all_prefs` up to `if filtered_items:`
CheckUser(r) ==
    /\ run[r].pc = "users"
    /\ run[r].user_idx <= Len(run[r].all_prefs)
    /\ LET user_pref == run[r].all_prefs[run[r].user_idx]
           frequency == Get(user_pref, "NotificationFrequency", DefaultFrequency)
           topic == Get(user_pref, "PreferredTopic", DefaultTopic)
           last_notified == Get(user_pref, "LastNotifiedTimestamp", PyNone)
           filtered == FilterItems(run[r].new_items, topic)
       IN run' = [run EXCEPT ![r] =
                    IF ~ is_user_due_for_notification(frequency, last_notified, now)
                    THEN [@ EXCEPT !.user_idx = @ + 1]            \* continue
                    ELSE IF filtered /= <<>>
                    THEN [@ EXCEPT !.filtered_items = filtered, !.pc = "send"]
                    ELSE [@ EXCEPT !.user_idx = @ + 1]]
    /\ UNCHANGED <<now, stores, history, skill, due>>

\* send_proactive_notification(user_id, filtered_items, alexa_token)
SendNotification(r) ==
    /\ run[r].pc = "send"
    /\ LET user_pref == run[r].all_prefs[run[r].user_idx] IN
       \E o \in PostOutcomes :
         notify_log' = Append(notify_log,
            [run |-> r, user |-> user_pref.UserId,
             items |-> run[r].filtered_items,
             frequency |-> Get(user_pref, "NotificationFrequency",
                               DefaultFrequency),
             time |-> now,
             delivered |-> send_proactive_notification(run[r].alexa_token, o)])
    /\ run' = [run EXCEPT ![r] = [@ EXCEPT !.pc = "update"]]
    /\ UNCHANGED <<now, stores, llm_log, put_log, runs_started,
                   pref_sets, skill, due>>

\* prefs_table.update_item(... LastNotifiedTimestamp = utcnow().isoformat())
UpdateLastNotified(r) ==
    /\ run[r].pc = "update"
    /\ LET user_id == run[r].all_prefs[run[r].user_idx].UserId IN
       prefs_table' = update_item(prefs_table, user_id, isoformat(now))
    /\ run' = [run EXCEPT ![r] = [@ EXCEPT !.filtered_items = <<>>,
                                           !.user_idx = @ + 1,
                                           !.pc = "users"]]
    /\ UNCHANGED <<now, feed_table, history, skill, due>>

\* notify_users returns; lambda_handler returns statusCode 200
EndRun(r) ==
    /\ run[r].pc = "users"
    /\ run[r].user_idx > Len(run[r].all_prefs)
    /\ run' = [run EXCEPT ![r] = ReturnedRun]
    /\ UNCHANGED <<now, stores, history, skill, due>>

--------------------------------------------------------------------------
(***************************************************************************)
(* alexaSkill: responses                                                   *)
(***************************************************************************)
\* items_sorted[:3]
TopN == 3

\* a spoken text: the f-string template and the values put into it
Speech(template, topic, frequency, updates) ==
    [template |-> template, topic |-> topic, frequency |-> frequency,
     updates |-> updates]

Say(template) == Speech(template, <<>>, "", <<>>)

build_plaintext_response(speech_text) ==
    [outputSpeech |-> speech_text, card |-> "", directive |-> "",
     shouldEndSession |-> FALSE]

build_apl_response(speech_text, title) ==
    [outputSpeech |-> speech_text, card |-> title,
     directive |-> "Alexa.Presentation.APL.RenderDocument",
     shouldEndSession |-> FALSE]

\* what an invocation of the skill's lambda_handler does: it returns a response
\* envelope or raises, and leaves the preference table as `prefs`; `reported`
\* is latest_items of handle_get_latest_updates
Returned(response, prefs, reported) ==
    [kind |-> "return", error |-> "", response |-> response,
     prefs_table |-> prefs, reported |-> reported]

Raised(error, prefs) ==
    [kind |-> "raise", error |-> error,
     response |-> build_plaintext_response(Say("")),
     prefs_table |-> prefs, reported |-> <<>>]

\* before any request: nothing that could be an envelope
NoEvent == [none |-> TRUE]

NoResult == Returned(build_plaintext_response(Say("")), EmptyTable, <<>>)

--------------------------------------------------------------------------
(***************************************************************************)
(* alexaSkill: handlers                                                    *)
(***************************************************************************)
get_alexa_user_id(request) ==
    Get(Get(request, "user", EmptyTable), "userId", DefaultUser)

load_user_preferences(prefs, user_id) == Get(prefs, user_id, EmptyTable)

\* [it for it in items if topic in it.get("FeedSource", "")]
FilterByTopic(items, topic) ==
    SelectSeq(items, LAMBDA it : StrIn(topic, Get(it, "FeedSource", <<>>)))

\* comparison of two isoformat() strings of the same clock
IsoLess(a, b) == fromisoformat(a) < fromisoformat(b)

\* sorted(filtered, key=CreatedTimestamp, reverse=True): a stable sort, so
\* items with equal keys keep the order the scan returned them in
RECURSIVE SortedByCreatedDesc(_)
SortedByCreatedDesc(items) ==
    IF items = <<>> THEN <<>>
    ELSE LET n == Len(items)
             x == items[n]
             rest == SortedByCreatedDesc(SubSeq(items, 1, n - 1))
             \* x goes after every item not older than it
             k == Cardinality({i \in 1..(n - 1) :
                     ~ IsoLess(rest[i].CreatedTimestamp, x.CreatedTimestamp)})
         IN SubSeq(rest, 1, k) \o <<x>> \o SubSeq(rest, k + 1, n - 1)

Prefix(items, n) == SubSeq(items, 1, IF Len(items) < n THEN Len(items) ELSE n)

\* the slice taken from the wrong end of the sorted list
OldestItems(items, topic) ==
    LET sorted == SortedByCreatedDesc(FilterByTopic(items, topic))
    IN SubSeq(sorted, IF Len(sorted) < TopN THEN 1 ELSE Len(sorted) - TopN + 1,
              Len(sorted))

\* filtered, items_sorted and latest_items of handle_get_latest_updates
LatestItems(items, topic) ==
    Prefix(SortedByCreatedDesc(FilterByTopic(items, topic)), TopN)

handle_get_latest_updates(request, feed, prefs, order) ==
    LET user_id == get_alexa_user_id(request)
        user_prefs == load_user_preferences(prefs, user_id)
        topic == Get(user_prefs, "PreferredTopic", DefaultTopic)
        items == [i \in DOMAIN order |-> feed[order[i]]]   \* feed_table.scan()
        latest_items == LatestItems(items, topic)
    IN IF latest_items = <<>>
       THEN Returned(build_plaintext_response(
                        Speech("No new {topic} updates at this time.",
                               topic, "", <<>>)),
                     prefs, <<>>)
       ELSE Returned(build_apl_response(
                        Speech("Here are the latest {topic} updates:", topic, "",
                               [i \in DOMAIN latest_items |->
                                  [Title |-> latest_items[i].Title,
                                   Summary |-> latest_items[i].Summary]]),
                        "Latest FLRA Updates"),
                     prefs, latest_items)

handle_set_preference(request, prefs, utcnow) ==
    LET user_id == get_alexa_user_id(request) IN
    IF "slots" \notin DOMAIN request.intent
    THEN Raised("KeyError: 'slots'", prefs)
    ELSE LET intent_slots == request.intent.slots
             frequency == Get(Get(intent_slots, "frequency", EmptyTable),
                              "value", DefaultFrequency)
             topic == Get(Get(intent_slots, "topic", EmptyTable),
                          "value", DefaultTopic)
         IN Returned(build_plaintext_response(
                        Speech("Got it. Preference set to {frequency} updates for {topic}.",
                               topic, frequency, <<>>)),
                     \* prefs_table.put_item: the whole record is replaced
                     SetKey(prefs, user_id,
                            [UserId |-> user_id,
                             NotificationFrequency |-> frequency,
                             PreferredTopic |-> topic,
                             UpdatedTimestamp |-> isoformat(utcnow)]),
                     <<>>)

handle_get_preference(request, prefs) ==
    LET user_id == get_alexa_user_id(request)
        user_prefs == load_user_preferences(prefs, user_id)
    IN IF DOMAIN user_prefs = {}
       THEN Returned(build_plaintext_response(
                        Say("I don't have any preferences for you yet.")),
                     prefs, <<>>)
       ELSE Returned(build_plaintext_response(
                        Speech("Your preference is {freq} updates about {topic}.",
                               Get(user_prefs, "PreferredTopic", DefaultTopic),
                               Get(user_prefs, "NotificationFrequency",
                                   DefaultFrequency),
                               <<>>)),
                     prefs, <<>>)

handle_play_audio(request, prefs) ==
    Returned([outputSpeech |-> Say("Playing the requested audio..."),
              card |-> "", directive |-> "AudioPlayer.Play",
              shouldEndSession |-> TRUE],
             prefs, <<>>)

on_launch(prefs) ==
    Returned(build_apl_response(
                Say("Welcome to the FLRA Bot. You can ask for the latest updates or set your preferences."),
                "Welcome to FLRA Bot"),
             prefs, <<>>)

on_intent(request, feed, prefs, order, utcnow) ==
    IF "intent" \notin DOMAIN request
    THEN Raised("KeyError: 'intent'", prefs)
    ELSE IF "name" \notin DOMAIN request.intent
    THEN Raised("KeyError: 'name'", prefs)
    ELSE LET intent_name == request.intent.name IN
         IF intent_name = "GetLatestUpdatesIntent"
         THEN handle_get_latest_updates(request, feed, prefs, order)
         ELSE IF intent_name = "SetPreferenceIntent"
         THEN handle_set_preference(request, prefs, utcnow)
         ELSE IF intent_name = "GetPreferenceIntent"
         THEN handle_get_preference(request, prefs)
         ELSE IF intent_name = "PlayAudioIntent"
         THEN handle_play_audio(request, prefs)
         ELSE Returned(build_plaintext_response(
                          Say("I don't know that intent.")), prefs, <<>>)

\* the skill's lambda_handler; put_custom_metric swallows its own failures
\* and touches neither table
skill_lambda_handler(ev, feed, prefs, order, utcnow) ==
    IF "request" \notin DOMAIN ev
    THEN Returned(build_plaintext_response(Say("Invalid request.")), prefs, <<>>)
    ELSE IF "type" \notin DOMAIN ev.request
    THEN Raised("KeyError: 'type'", prefs)
    ELSE LET request_type == ev.request.type IN
         IF request_type = "LaunchRequest" THEN on_launch(prefs)
         ELSE IF request_type = "IntentRequest"
         THEN on_intent(ev.request, feed, prefs, order, utcnow)
         ELSE Returned(build_plaintext_response(
                          Say("Sorry, I didn't understand that.")), prefs, <<>>)

--------------------------------------------------------------------------
(***************************************************************************)
(* alexaSkill: request envelopes                                           *)
(***************************************************************************)
\* {**d1, **d2}
Merge(d1, d2) ==
    [k \in DOMAIN d1 \cup DOMAIN d2 |-> IF k \in DOMAIN d2 THEN d2[k] ELSE d1[k]]

\* the "user" part of a request: absent, or naming a user
UserParts(users) ==
    {IF u = DefaultUser THEN EmptyTable ELSE [user |-> [userId |-> u]] :
       u \in users}

\* the slots of a SetPreferenceIntent; each slot may be left unfilled
SlotSets(frequencies, topics) ==
    {Merge(f, t) :
       f \in {EmptyTable} \cup {[frequency |-> [value |-> x]] : x \in frequencies},
       t \in {EmptyTable} \cup {[topic |-> [value |-> x]] : x \in topics}}

IntentEvents(intents, users) ==
    {[request |-> Merge([type |-> "IntentRequest", intent |-> i], u)] :
       i \in intents, u \in UserParts(users)}

SetPreferenceEvents(frequencies, topics, users) ==
    IntentEvents({[name |-> "SetPreferenceIntent", slots |-> sl] :
                    sl \in SlotSets(frequencies, topics)}, users)

LatestEvents == IntentEvents({[name |-> "GetLatestUpdatesIntent"]}, Users)

\* the request shapes the skill is probed with
SkillFrequencies == {"weekly"}
SkillTopics == {<<>>, <<"p">>, <<"p", "f">>}

MalformedEvents ==
    {EmptyTable,                                          \* no "request"
     [request |-> EmptyTable],                            \* no "type"
     [request |-> [intent |-> [name |-> "GetLatestUpdatesIntent"]]],
     [request |-> [type |-> "SessionEndedRequest"]],      \* another type
     [request |-> [type |-> "IntentRequest"]],            \* no "intent"
     [request |-> [type |-> "IntentRequest", intent |-> EmptyTable]],
     [request |-> [type |-> "IntentRequest",
                   intent |-> [name |-> "OrderPizzaIntent"]]],
     [request |-> [type |-> "IntentRequest",              \* no "slots"
                   intent |-> [name |-> "SetPreferenceIntent"]]]}

Events ==
    MalformedEvents
    \cup {[request |-> [type |-> "LaunchRequest"]]}
    \cup IntentEvents({[name |-> "GetLatestUpdatesIntent"],
                       [name |-> "GetPreferenceIntent"],
                       [name |-> "PlayAudioIntent"]}, Users)
    \cup SetPreferenceEvents(SkillFrequencies, SkillTopics, Users)

--------------------------------------------------------------------------
(***************************************************************************)
(* Actions of the skill                                                    *)
(***************************************************************************)
\* one invocation of the skill's lambda_handler, recorded with its outcome
Serve(ev) ==
    \E order \in ScanOrders(feed_table) :
      LET res == skill_lambda_handler(ev, feed_table, prefs_table, order, now)
      IN /\ event' = ev
         /\ result' = res
         /\ prefs_table' = res.prefs_table
         /\ UNCHANGED <<now, feed_table, run, history, due>>

SkillRequest == \E ev \in Events : Serve(ev)

LatestRequest == \E ev \in LatestEvents : Serve(ev)

\* the slot values users give while ingestion runs; an unfilled slot gives
\* "daily" and "decisions"
NotifyFrequencies == {"weekly"}
NotifyTopics == {<<"f", "p">>}

\* a SetPreferenceIntent request served while ingestion runs; its response
\* goes to the caller and is not kept
SetPreference ==
    /\ pref_sets < MaxPrefSets
    /\ \E ev \in SetPreferenceEvents(NotifyFrequencies, NotifyTopics, Users) :
         prefs_table' =
            skill_lambda_handler(ev, feed_table, prefs_table, <<>>, now).prefs_table
    /\ pref_sets' = pref_sets + 1
    /\ UNCHANGED <<now, feed_table, run, llm_log, put_log, notify_log,
                   runs_started, skill, due>>

\* is_user_due_for_notification applied to the drawn arguments
CheckDue ==
    /\ ~ due_result.returned
    /\ due_result' =
         [returned |-> TRUE,
          value |-> is_user_due_for_notification(due_args.frequency,
                                                 due_args.last_notified, now)]
    /\ UNCHANGED <<now, stores, run, history, skill, due_args>>

--------------------------------------------------------------------------
(***************************************************************************)
(* Initial states and specifications                                       *)
(***************************************************************************)
NoDueArgs == [frequency |-> DefaultFrequency, last_notified |-> PyNone]

\* no ingestion run started, no request served
NothingStarted ==
    /\ run = [r \in Runs |-> IdleRun]
    /\ llm_log = [l \in Links |-> <<>>]
    /\ put_log = [l \in Links |-> 0]
    /\ notify_log = <<>>
    /\ runs_started = 0
    /\ pref_sets = 0
    /\ event = NoEvent
    /\ result = NoResult

NoDueCheck ==
    /\ due_args = NoDueArgs
    /\ due_result = [returned |-> FALSE, value |-> FALSE]

\* both tables empty, no invocation yet
Init ==
    /\ now = 0
    /\ feed_table = EmptyTable
    /\ prefs_table = EmptyTable
    /\ NothingStarted
    /\ NoDueCheck

\* the item stores ingestion can leave behind over the given links
ItemStores(links, times) ==
    UNION {{[l \in D |-> StoredItem([link |-> l, title |-> "t1"], "bullets",
                                    MULTIPLE_FEEDS[c[l][1]], c[l][2])] :
              c \in [D -> (DOMAIN MULTIPLE_FEEDS) \X times]} :
           D \in SUBSET links}

\* the preference tables one SetPreferenceIntent of the default user leaves
OneUserPrefs ==
    {EmptyTable} \cup
    {skill_lambda_handler(ev, EmptyTable, EmptyTable, <<>>, 0).prefs_table :
       ev \in SetPreferenceEvents({}, Topics, {DefaultUser})}

\* the skill facing a store of at most one item and no preferences
InitSkill ==
    /\ now = 0
    /\ feed_table \in ItemStores({1}, 0..MaxCreated)
    /\ prefs_table = EmptyTable
    /\ NothingStarted
    /\ NoDueCheck

\* the skill facing any item store and any topic preference
InitLatest ==
    /\ now = 0
    /\ feed_table \in ItemStores(1..MaxStored, 0..MaxCreated)
    /\ prefs_table \in OneUserPrefs
    /\ NothingStarted
    /\ NoDueCheck

\* any frequency, any last notification, any present time
InitDue ==
    /\ now \in 0..(Week + Day)
    /\ feed_table = EmptyTable
    /\ prefs_table = EmptyTable
    /\ NothingStarted
    /\ due_args \in [frequency : Frequencies,
                     last_notified : {PyNone} \cup
                                     {isoformat(t) : t \in 0..(Week + Day)}]
    /\ due_result = [returned |-> FALSE, value |-> FALSE]

\* what the feeds and services are let do in each specification
IngestTitles == Titles
IngestOutcomes == LLMOutcomes
PlainTitles == {"t1"}
PlainOutcomes == {"ok"}

NextIngest ==
    \/ Tick
    \/ \E r \in Runs : StartRun(r)
    \/ \E r \in Runs : NextEntry(r, IngestTitles)
    \/ \E r \in Runs : Summarize(r, IngestOutcomes)
    \/ \E r \in Runs : PutItem(r)
    \/ \E r \in Runs : EndFeed(r)
    \/ \E r \in Runs : ScanPrefs(r)

Next ==
    \/ Tick
    \/ \E r \in Runs : StartRun(r)
    \/ \E r \in Runs : NextEntry(r, PlainTitles)
    \/ \E r \in Runs : Summarize(r, PlainOutcomes)
    \/ \E r \in Runs : PutItem(r)
    \/ \E r \in Runs : EndFeed(r)
    \/ \E r \in Runs : ScanPrefs(r)
    \/ \E r \in Runs : CheckUser(r)
    \/ \E r \in Runs : SendNotification(r)
    \/ \E r \in Runs : UpdateLastNotified(r)
    \/ \E r \in Runs : EndRun(r)
    \/ SetPreference

NextOverlap ==
    \/ \E r \in Runs : StartOverlappingRun(r)
    \/ \E r \in Runs : NextEntry(r, PlainTitles)
    \/ \E r \in Runs : Summarize(r, PlainOutcomes)
    \/ \E r \in Runs : PutItem(r)
    \/ \E r \in Runs : EndFeed(r)
    \/ \E r \in Runs : ScanPrefs(r)

\* scheduled ingestion runs, one at a time, with preference requests between
Spec == Init /\ [][Next]_vars

\* scheduled ingestion runs over feeds and a summarizer that may do anything
SpecIngest == Init /\ [][NextIngest]_vars

\* ingestion runs that overlap
SpecOverlap == Init /\ [][NextOverlap]_vars

\* the skill's request dispatch
SpecSkill == InitSkill /\ [][SkillRequest]_vars

\* GetLatestUpdatesIntent over any store
SpecLatest == InitLatest /\ [][LatestRequest]_vars

\* the due-ness check alone
SpecDue == InitDue /\ [][CheckDue]_vars

--------------------------------------------------------------------------
(***************************************************************************)
(* Vocabulary of the properties, stated without the code's own operators   *)
(***************************************************************************)
\* s holds sub as a contiguous part
Contains(s, sub) ==
    \E pre, post \in 0..Len(s) :
      /\ pre + Len(sub) + post = Len(s)
      /\ \A k \in 1..Len(sub) : s[pre + k] = sub[k]

\* 7 days for "weekly", 1 day for anything else
Threshold(frequency) == IF frequency = "weekly" THEN 7 * TicksPerDay
                        ELSE TicksPerDay

Frequency(pref) ==
    IF "NotificationFrequency" \in DOMAIN pref THEN pref.NotificationFrequency
    ELSE "daily"

Topic(pref) ==
    IF "PreferredTopic" \in DOMAIN pref THEN pref.PreferredTopic ELSE <<"d">>

NeverNotified(pref) == "LastNotifiedTimestamp" \notin DOMAIN pref

\* the user of preference record pref is due at time t
DueAt(pref, t) ==
    \/ NeverNotified(pref)
    \/ t - pref.LastNotifiedTimestamp[1] >= Threshold(Frequency(pref))

\* the items of a list whose feed matches the topic, in the list's order
Matching(items, topic) ==
    SelectSeq(items, LAMBDA it : Contains(it.FeedSource, topic))

\* run r is about to decide on the user at user_idx
AtUser(r) == run[r].pc = "users" /\ run[r].user_idx <= Len(run[r].all_prefs)
CurrentPref(r) == run[r].all_prefs[run[r].user_idx]
Steps(r) == run'[r] /= run[r]

--------------------------------------------------------------------------
\* C1: is_user_due_for_notification returns true when last_notified is absent,
\* and otherwise exactly when now - last_notified >= threshold, the threshold
\* being 7 days for "weekly" and 1 day for "daily" and any other frequency.
C1_DueContract ==
    due_result.returned =>
      (due_result.value <=>
         \/ due_args.last_notified = <<>>
         \/ now - due_args.last_notified[1] >= Threshold(due_args.frequency))

\* a weekly user exactly 7 days after the last notification was found due
C1_Witness ==
    /\ due_result.returned /\ due_result.value
    /\ due_args.frequency = "weekly"
    /\ due_args.last_notified /= <<>>
    /\ now - due_args.last_notified[1] = 7 * TicksPerDay

--------------------------------------------------------------------------
\* C2: in notify_users a user who is due, but for whom no item of new_items
\* has a FeedSource containing the user's topic, is sent nothing and keeps the
\* LastNotifiedTimestamp; and a due user whose preference record does not
\* change is still due after every step, so at every later run.
C2_PassedOver(r) ==
    (/\ AtUser(r) /\ Steps(r)
     /\ DueAt(CurrentPref(r), now)
     /\ Matching(run[r].new_items, Topic(CurrentPref(r))) = <<>>)
    => /\ notify_log' = notify_log
       /\ prefs_table' = prefs_table
       /\ run'[r] = [run[r] EXCEPT !.user_idx = @ + 1]

C2_StaysDue(u) ==
    (/\ u \in DOMAIN prefs_table /\ u \in DOMAIN prefs_table'
     /\ prefs_table'[u] = prefs_table[u]
     /\ DueAt(prefs_table[u], now))
    => DueAt(prefs_table'[u], now')

--------------------------------------------------------------------------
\* C3: in notify_users every due user with at least one matching new item gets
\* exactly one send_proactive_notification call, whose item list is the
\* subsequence of new_items whose FeedSource contains the user's topic, in the
\* original order; a user who is not due (or has no match) gets no call.
C3_Decision(r) ==
    (AtUser(r) /\ Steps(r)) =>
      LET pref == CurrentPref(r)
          expected == Matching(run[r].new_items, Topic(pref))
      IN /\ notify_log' = notify_log
         /\ IF DueAt(pref, now) /\ expected /= <<>>
            THEN run'[r] = [run[r] EXCEPT !.pc = "send",
                                          !.filtered_items = expected]
            ELSE run'[r] = [run[r] EXCEPT !.user_idx = @ + 1]

C3_Call(r) ==
    (run[r].pc = "send" /\ Steps(r)) =>
      LET pref == CurrentPref(r) IN
      /\ Len(notify_log') = Len(notify_log) + 1
      /\ SubSeq(notify_log', 1, Len(notify_log)) = notify_log
      /\ LET call == notify_log'[Len(notify_log')] IN
         /\ call.run = r
         /\ call.user = pref.UserId
         /\ call.items = Matching(run[r].new_items, Topic(pref))
      /\ run'[r] = [run[r] EXCEPT !.pc = "update"]

C3_MovesOn(r) ==
    (run[r].pc = "update" /\ Steps(r)) =>
      /\ notify_log' = notify_log
      /\ run'[r].pc = "users"
      /\ run'[r].user_idx = run[r].user_idx + 1

--------------------------------------------------------------------------
\* C4 (as claimed): a user's LastNotifiedTimestamp is written during a run only
\* when a non-empty proactive notification to that user was delivered in that
\* run; a skipped send (empty token), a status >= 300 or an exception leaves it.
C4_StampOnlyAfterDelivery ==
    [][\A r \in Runs :
         (run[r].pc = "update" /\ Steps(r)
          /\ prefs_table' /= prefs_table)
         => /\ notify_log /= <<>>
            /\ notify_log[Len(notify_log)].user = CurrentPref(r).UserId
            /\ notify_log[Len(notify_log)].run = r
            /\ notify_log[Len(notify_log)].items /= <<>>
            /\ notify_log[Len(notify_log)].delivered]_vars

--------------------------------------------------------------------------
\* C10 (as claimed): whatever the interleaving of ingestion runs and
\* SetPreferenceIntent requests, two notifications delivered to one user under
\* the frequency "daily" are at least 24 hours apart, and under "weekly" at
\* least 7 days apart.
C10_OncePerWindow ==
    \A i, j \in DOMAIN notify_log :
      (/\ i < j
       /\ notify_log[i].user = notify_log[j].user
       /\ notify_log[i].delivered /\ notify_log[j].delivered
       /\ notify_log[i].frequency = notify_log[j].frequency
       /\ notify_log[i].frequency \in {"daily", "weekly"})
      => notify_log[j].time - notify_log[i].time >= Threshold(notify_log[i].frequency)

--------------------------------------------------------------------------
\* C5: across ingestion runs that do not overlap, whatever the feeds hold,
\* each ItemId is written to the item store at most once and summarized at
\* most once: an entry whose link is already stored causes no put_item and no
\* summarizer call, and a stored record never changes.
C5_Stored(l) ==
    l \in DOMAIN feed_table =>
      /\ l \in DOMAIN feed_table' /\ feed_table'[l] = feed_table[l]
      /\ put_log'[l] = put_log[l]
      /\ llm_log'[l] = llm_log[l]

C5_IngestedAtMostOnce ==
    [][\A l \in Links :
         /\ C5_Stored(l)
         /\ put_log'[l] <= 1
         /\ Len(llm_log'[l]) <= 1]_vars

\* the second run has gone through a whole feed of entries that were all
\* stored already, one of them under another title than the feed now shows
C5_Witness ==
    /\ runs_started = 2
    /\ run[2].pc = "entries"
    /\ run[2].n_read = MaxEntries
    /\ run[2].new_items = <<>>
    /\ \E l \in DOMAIN feed_table : feed_table[l].Title = "t2"
    /\ \A l \in DOMAIN feed_table : put_log[l] = 1 /\ Len(llm_log[l]) = 1

--------------------------------------------------------------------------
\* C7 (as claimed): every failure of the summarizer call (connection error,
\* non-JSON response, response without a summary) leaves the one placeholder
\* "Summary not available." as the Summary of the stored entry and of the
\* entry in the run's new items.
SummarizerFailures == {"connection_error", "non_json", "no_summary_key"}

C7_OnePlaceholder ==
    /\ \A l \in DOMAIN feed_table :
         (llm_log[l] /= <<>> /\ llm_log[l][Len(llm_log[l])] \in SummarizerFailures)
         => feed_table[l].Summary = "Summary not available."
    /\ \A r \in Runs : \A i \in DOMAIN run[r].new_items :
         LET l == run[r].new_items[i].ItemId IN
         (llm_log[l] /= <<>> /\ llm_log[l][Len(llm_log[l])] \in SummarizerFailures)
         => run[r].new_items[i].Summary = "Summary not available."

--------------------------------------------------------------------------
\* C6 (as claimed): the skill's lambda_handler never raises on a malformed or
\* unrecognized request: no "request" field, a type that is neither
\* LaunchRequest nor IntentRequest, no "type" field, an unknown intent name, or
\* an IntentRequest without "intent" all get a fallback spoken response.
FallbackTexts ==
    {"Invalid request.", "Sorry, I didn't understand that.",
     "I don't know that intent."}

IsClaimedShape(ev) ==
    \/ "request" \notin DOMAIN ev
    \/ "type" \notin DOMAIN ev.request
    \/ ev.request.type \notin {"LaunchRequest", "IntentRequest"}
    \/ (ev.request.type = "IntentRequest" /\ "intent" \notin DOMAIN ev.request)
    \/ (/\ ev.request.type = "IntentRequest"
        /\ "name" \in DOMAIN ev.request.intent
        /\ ev.request.intent.name \notin
             {"GetLatestUpdatesIntent", "SetPreferenceIntent",
              "GetPreferenceIntent", "PlayAudioIntent"})

C6_NeverRaises ==
    (event /= NoEvent /\ IsClaimedShape(event)) =>
      /\ result.kind = "return"
      /\ result.response.outputSpeech.template \in FallbackTexts

--------------------------------------------------------------------------
\* C8: GetLatestUpdatesIntent, for any item store and topic (the user's
\* PreferredTopic, "decisions" without a preference record), reports at most 3
\* items, each stored with a FeedSource containing the topic, by
\* CreatedTimestamp descending, and no matching item left out is newer than a
\* reported one; when no stored item matches it says there are no updates.
RequestUser(ev) ==
    IF "user" \in DOMAIN ev.request THEN ev.request.user.userId ELSE "demoUser"

RequestTopic(ev) ==
    IF RequestUser(ev) \in DOMAIN prefs_table
    THEN Topic(prefs_table[RequestUser(ev)]) ELSE <<"d">>

StoredMatching(topic) ==
    {feed_table[l] : l \in {k \in DOMAIN feed_table :
                              Contains(feed_table[k].FeedSource, topic)}}

Created(it) == it.CreatedTimestamp[1]

--------------------------------------------------------------------------
\* C9: when two ingestion runs overlap, item_exists followed by put_item is not
\* atomic: a run that found an ItemId absent summarizes it, writes it and
\* reports it as new even when the other run has stored it in between, so both
\* runs can summarize and write the same item.
C9_PutAfterStaleCheck(r) ==
    (/\ run[r].pc = "put" /\ Steps(r)
     /\ run[r].entry.link \in DOMAIN feed_table)
    => LET l == run[r].entry.link IN
       /\ put_log'[l] = put_log[l] + 1
       /\ feed_table'[l].FeedSource = MULTIPLE_FEEDS[run[r].feed_idx]
       /\ Len(run'[r].new_items) = Len(run[r].new_items) + 1
       /\ run'[r].new_items[Len(run'[r].new_items)].ItemId = l

C9_SummarizeAfterStaleCheck(r) ==
    (/\ run[r].pc = "summarize" /\ Steps(r)
     /\ run[r].entry.link \in DOMAIN feed_table)
    => Len(llm_log'[run[r].entry.link]) = Len(llm_log[run[r].entry.link]) + 1

C9_CheckThenWriteRace ==
    [][\A r \in Runs : C9_PutAfterStaleCheck(r) /\ C9_SummarizeAfterStaleCheck(r)]_vars

\* one item summarized twice, written twice, new in both runs
C9_Witness ==
    \E l \in Links :
      /\ Len(llm_log[l]) = 2
      /\ put_log[l] = 2
      /\ \A r \in {1, 2} : \E i \in DOMAIN run[r].new_items :
           run[r].new_items[i].ItemId = l

====
